---- MODULE Spec2Model ----
(***************************************************************************)
(* Model of Polyclinic.cpp: the Patient hierarchy (Patient, ChildPatient,  *)
(* ElderPatient) and the Polyclinic container that owns its patients       *)
(* through std::unique_ptr<Patient>.                                       *)
(*                                                                         *)
(* The free store is modelled explicitly (heap: address -> object), so     *)
(* that ownership, sharing and dangling pointers are observable.           *)
(* String literals of the source are Cyrillic; they are transliterated to  *)
(* ASCII here (the values are opaque to the code, only the structure of    *)
(* concatenations matters).                                                *)
(*                                                                         *)
(* Every member function is one action. The callers are modelled as five   *)
(* scenarios (copies, clones, removals, saving, merges), each with its own *)
(* next-state relation over the same actions and its own small inputs.     *)
(* Undefined behaviour (signed overflow of doctorsCount, push_back into    *)
(* the vector a range-for iterates over) is a choice between the outcomes  *)
(* builds produce: the wrapped value or a trap, the unchecked walk or the  *)
(* abort of checked iterators.                                             *)
(***************************************************************************)
EXTENDS Integers, Sequences, FiniteSets, TLC

VARIABLES
    clinics,   \* the Polyclinic objects in scope: variable name -> object
    heap,      \* the free store: address -> Patient object (make_unique)
    files,     \* the file system: path -> sequence of text lines
    last       \* the last member function called and how it ended

vars == <<clinics, heap, files, last>>

-----------------------------------------------------------------------------
(* Bounds of the model *)

\* largest value of int in the model (INT_MAX); int is -(IntMax+1) .. IntMax
IntMax == 3
\* the free store holds at most this many Patient objects at a time
MaxObjects == 3
\* the same for the merge scenario, where a result needs room next to both
\* of its operands
MaxMergeObjects == 4
\* no Polyclinic name grows beyond this many characters
MaxNameLen == 5

IntMin == -(IntMax + 1)
IntRange == IntMin .. IntMax

-----------------------------------------------------------------------------
(* std::to_string(int) *)

Digit(d) ==
    CASE d = 0 -> "0" [] d = 1 -> "1" [] d = 2 -> "2" [] d = 3 -> "3"
      [] d = 4 -> "4" [] d = 5 -> "5" [] d = 6 -> "6" [] d = 7 -> "7"
      [] d = 8 -> "8" [] d = 9 -> "9"

RECURSIVE Decimal(_)
Decimal(n) == IF n < 10 THEN Digit(n) ELSE Decimal(n \div 10) \o Digit(n % 10)

to_string(n) == IF n < 0 THEN "-" \o Decimal(-n) ELSE Decimal(n)

-----------------------------------------------------------------------------
(* class Patient and its derived classes *)

\* Patient(std::string name, int age, std::string disease)
NewPatient(name, age, disease) ==
    [type |-> "Patient", name |-> name, age |-> age, disease |-> disease]

\* Patient(): "Nevidomo" / 0 / "Nemaie"
DefaultPatient == NewPatient("Nevidomo", 0, "Nemaie")

\* Patient(const Patient& other): copies the three base fields only
PatientCopy(other) == NewPatient(other.name, other.age, other.disease)

\* ChildPatient(name, age, disease, parentContact)
NewChildPatient(name, age, disease, parentContact) ==
    [type |-> "ChildPatient", name |-> name, age |-> age, disease |-> disease,
     parentContact |-> parentContact]

\* implicit ChildPatient(const ChildPatient&): base copy, then the member
ChildPatientCopy(other) ==
    LET base == PatientCopy(other)
    IN  NewChildPatient(base.name, base.age, base.disease, other.parentContact)

\* ElderPatient(name, age, disease, allergies, contraindications)
NewElderPatient(name, age, disease, allergies, contraindications) ==
    [type |-> "ElderPatient", name |-> name, age |-> age, disease |-> disease,
     allergies |-> allergies, contraindications |-> contraindications]

\* implicit ElderPatient(const ElderPatient&): base copy, then the members
ElderPatientCopy(other) ==
    LET base == PatientCopy(other)
    IN  NewElderPatient(base.name, base.age, base.disease,
                        other.allergies, other.contraindications)

\* virtual clone(): dispatch on the dynamic type
clone(p) ==
    CASE p.type = "Patient"      -> PatientCopy(p)
      [] p.type = "ChildPatient" -> ChildPatientCopy(p)
      [] p.type = "ElderPatient" -> ElderPatientCopy(p)

\* ChildPatient::needParentalPermission
needParentalPermission(p) == p.age < 18

\* virtual toLine(): TYPE|name|age|disease|...
toLine(p) ==
    CASE p.type = "Patient" ->
            "Patient" \o "|" \o p.name \o "|" \o to_string(p.age) \o "|" \o p.disease
      [] p.type = "ChildPatient" ->
            "Child" \o "|" \o p.name \o "|" \o to_string(p.age)
                \o "|" \o p.disease \o "|" \o p.parentContact
      [] p.type = "ElderPatient" ->
            "Elder" \o "|" \o p.name \o "|" \o to_string(p.age)
                \o "|" \o p.disease \o "|" \o p.allergies \o "|" \o p.contraindications

\* virtual printInfo(): the text written to std::cout
printInfo(p) ==
    CASE p.type = "Patient" ->
            "Patsiient: " \o p.name \o ", vik: " \o to_string(p.age)
                \o ", diahnoz: " \o p.disease \o "\n"
      [] p.type = "ChildPatient" ->
            "Dytiachyi patsiient: " \o p.name \o ", vik: " \o to_string(p.age)
                \o ", diahnoz: " \o p.disease
                \o ", kontakt batkiv: " \o p.parentContact
                \o ", potriben dozvil: "
                \o (IF needParentalPermission(p) THEN "tak" ELSE "ni") \o "\n"
      [] p.type = "ElderPatient" ->
            "Litnii patsiient: " \o p.name \o ", vik: " \o to_string(p.age)
                \o ", diahnoz: " \o p.disease \o "\n"
                \o "  Alerhii: " \o p.allergies
                \o " | Protypokazannia: " \o p.contraindications \o "\n"

-----------------------------------------------------------------------------
(* The free store *)

\* operator new: the lowest address not in use
FreshAddr(h) ==
    CHOOSE a \in 1 .. (Cardinality(DOMAIN h) + 1) :
        a \notin DOMAIN h /\ \A b \in 1 .. (a - 1) : b \in DOMAIN h

\* std::make_unique<T>(obj): the store with the new object, and its address
make_unique(h, obj) ==
    LET a == FreshAddr(h) IN [heap |-> h @@ (a :> obj), ptr |-> a]

\* ~unique_ptr for each pointer of ptrs: delete
Delete(h, ptrs) ==
    LET gone == {ptrs[i] : i \in DOMAIN ptrs}
    IN  [a \in DOMAIN h \ gone |-> h[a]]

-----------------------------------------------------------------------------
(* class Polyclinic: helpers working on (free store, object) pairs *)

\* what the members name, address, doctorsCount, patients hold
NewPolyclinic(name, address, doctors, patients) ==
    [name |-> name, address |-> address, doctorsCount |-> doctors,
     patients |-> patients]

\* a loop that copies through the base class instead of clone():
\* for (const auto& p : src) patients.push_back(std::make_unique<Patient>(*p));
RECURSIVE PushBackSliced(_, _, _)
PushBackSliced(h, patients, src) ==
    IF src = <<>>
    THEN [heap |-> h, patients |-> patients]
    ELSE LET m == make_unique(h, PatientCopy(h[Head(src)]))
         IN  PushBackSliced(m.heap, Append(patients, m.ptr), Tail(src))

\* for (const auto& p : src) patients.push_back(p->clone());
RECURSIVE PushBackClones(_, _, _)
PushBackClones(h, patients, src) ==
    IF src = <<>>
    THEN [heap |-> h, patients |-> patients]
    ELSE LET m == make_unique(h, clone(h[Head(src)]))
         IN  PushBackClones(m.heap, Append(patients, m.ptr), Tail(src))

\* Polyclinic(std::string name, std::string address, int doctors)
Ctor(name, address, doctors) ==
    NewPolyclinic(name, address, IF doctors < 0 THEN 0 ELSE doctors, <<>>)

\* Polyclinic()
DefaultCtor == NewPolyclinic("Bez nazvy", "Nevidomo", 0, <<>>)

\* a copy constructor that copies the pointers instead of the objects
CopyCtorShallow(h, other) ==
    [heap |-> h,
     obj  |-> NewPolyclinic(other.name, other.address, other.doctorsCount,
                            other.patients)]

\* Polyclinic(const Polyclinic& other)
CopyCtor(h, other) ==
    LET r == PushBackClones(h, <<>>, other.patients)
    IN  [heap |-> r.heap,
         obj  |-> NewPolyclinic(other.name, other.address, other.doctorsCount,
                                r.patients)]

\* void addPatient(const Patient& p), p an object outside the free store
addPatient(h, this, p) ==
    LET m == make_unique(h, clone(p))
    IN  [heap |-> m.heap,
         obj  |-> [this EXCEPT !.patients = Append(@, m.ptr)]]

\* patients.pop_back()
PopBack(h, this) ==
    LET n == Len(this.patients)
    IN  [heap |-> Delete(h, <<this.patients[n]>>),
         obj  |-> [this EXCEPT !.patients = SubSeq(@, 1, n - 1)]]

\* an erase that removes the element after the one asked for
EraseOffByOne(h, this, index) ==
    LET n == Len(this.patients)
        k == IF index + 2 <= n THEN index + 2 ELSE index + 1
    IN  [heap |-> Delete(h, <<this.patients[k]>>),
         obj  |-> [this EXCEPT !.patients =
                      SubSeq(@, 1, k - 1) \o SubSeq(@, k + 1, n)]]

\* patients.erase(patients.begin() + index), index < size, zero-based
Erase(h, this, index) ==
    LET n == Len(this.patients)
    IN  [heap |-> Delete(h, <<this.patients[index + 1]>>),
         obj  |-> [this EXCEPT !.patients =
                      SubSeq(@, 1, index) \o SubSeq(@, index + 2, n)]]

\* int getPatientsCount() const
getPatientsCount(this) == Len(this.patients)

\* const Patient* getPatientPtr(size_t index) const; 0 is nullptr
getPatientPtr(this, index) ==
    IF index < Len(this.patients) THEN this.patients[index + 1] ELSE 0

\* bool operator==(const Polyclinic& other) const
OperatorEq(this, other) == getPatientsCount(this) = getPatientsCount(other)

\* int + int: the value when it is representable
Representable(n) == n \in IntRange

\* two's complement wrap-around of an int result that is not representable
Wrap(n) == ((n - IntMin) % (2 * (IntMax + 1))) + IntMin

\* a removeLastPatient() that returns silently when there is nothing to remove
removeLastPatientSilent(h, this) ==
    IF this.patients = <<>>
    THEN [heap |-> h, obj |-> this, thrown |-> "none"]
    ELSE LET r == PopBack(h, this)
         IN  [heap |-> r.heap, obj |-> r.obj, thrown |-> "none"]

\* void removeLastPatient(): the exception thrown, or "none"
removeLastPatient(h, this) ==
    IF this.patients = <<>>
    THEN [heap |-> h, obj |-> this, thrown |-> "EmptyClinicError"]
    ELSE LET r == PopBack(h, this)
         IN  [heap |-> r.heap, obj |-> r.obj, thrown |-> "none"]

\* void removePatientByIndex(size_t index)
removePatientByIndex(h, this, index) ==
    IF index >= Len(this.patients)
    THEN [heap |-> h, obj |-> this, thrown |-> "PatientIndexError"]
    ELSE LET r == Erase(h, this, index)
         IN  [heap |-> r.heap, obj |-> r.obj, thrown |-> "none"]

\* Polyclinic& operator++()
PreInc(h, this) == addPatient(h, this, DefaultPatient)

\* a postfix ++ that takes its copy after the increment
PostIncCopyAfter(h, this) ==
    LET inc == PreInc(h, this)
        t   == CopyCtor(inc.heap, inc.obj)
    IN  [heap |-> t.heap, obj |-> inc.obj, ret |-> t.obj]

\* Polyclinic operator++(int) { Polyclinic t(*this); ++(*this); return t; }
\* (t is returned in place; a build that copies it out instead returns an
\* equal deep copy at other addresses)
PostInc(h, this) ==
    LET t   == CopyCtor(h, this)
        inc == PreInc(t.heap, this)
    IN  [heap |-> inc.heap, obj |-> inc.obj, ret |-> t.obj]

-----------------------------------------------------------------------------
(* The state *)

\* a prvalue result that initialises no variable dies with its expression
Temporary == "tmp"

\* std::ofstream opens a path iff its directory exists
ExistingDirs == {"."}
CanOpen(path) == path.dir \in ExistingDirs

\* what last records: the member function, its object and how the call ended
\* ("none", the exception that left it, or "abort")
Call(op, self, outcome) == [op |-> op, self |-> self, outcome |-> outcome]

\* a terminated process (std::abort, a trap) makes no further call
Running == last.outcome # "abort"

Live == DOMAIN clinics

\* the returned prvalue initialises the variable dest, or is destroyed
ReturnInto(cl, h, dest, result) ==
    IF dest = Temporary
    THEN [clinics |-> cl, heap |-> Delete(h, result.patients)]
    ELSE [clinics |-> cl @@ (dest :> result), heap |-> h]

\* the variable c now holds obj
Store(cl, c, obj) == [x \in DOMAIN cl |-> IF x = c THEN obj ELSE cl[x]]

Init ==
    /\ clinics = <<>>
    /\ heap = <<>>
    /\ files = <<>>
    /\ last = Call("main", "-", "none")

-----------------------------------------------------------------------------
(* The operations *)

\* Polyclinic c(name, address, doctors);
Construct(c, name, address, doctors) ==
    /\ Running
    /\ c \notin Live
    /\ clinics' = clinics @@ (c :> Ctor(name, address, doctors))
    /\ last' = Call("Polyclinic", c, "none")
    /\ UNCHANGED <<heap, files>>

\* Polyclinic c(src);
CopyConstruct(c, src) ==
    /\ Running
    /\ c \notin Live
    /\ src \in Live
    /\ LET r == CopyCtor(heap, clinics[src])
       IN  /\ clinics' = clinics @@ (c :> r.obj)
           /\ heap' = r.heap
    /\ last' = Call("Polyclinic(const Polyclinic&)", c, "none")
    /\ UNCHANGED files

\* c goes out of scope: ~Polyclinic() releases every unique_ptr
Destroy(c) ==
    /\ Running
    /\ c \in Live
    /\ clinics' = [x \in Live \ {c} |-> clinics[x]]
    /\ heap' = Delete(heap, clinics[c].patients)
    /\ last' = Call("~Polyclinic", c, "none")
    /\ UNCHANGED files

\* c.addPatient(p);
AddPatient(c, p) ==
    /\ Running
    /\ c \in Live
    /\ LET r == addPatient(heap, clinics[c], p)
       IN  /\ clinics' = Store(clinics, c, r.obj)
           /\ heap' = r.heap
    /\ last' = Call("addPatient", c, "none")
    /\ UNCHANGED files

\* c.addChild(pname, age, disease, parentContact);
AddChild(c, pname, age, disease, parentContact) ==
    /\ Running
    /\ c \in Live
    /\ LET child == NewChildPatient(pname, age, disease, parentContact)
           r == addPatient(heap, clinics[c], child)
       IN  /\ clinics' = Store(clinics, c, r.obj)
           /\ heap' = r.heap
    /\ last' = Call("addChild", c, "none")
    /\ UNCHANGED files

\* c.addElder(pname, age, disease, allergies, contraindications);
AddElder(c, pname, age, disease, allergies, contraindications) ==
    /\ Running
    /\ c \in Live
    /\ LET e == NewElderPatient(pname, age, disease, allergies, contraindications)
           r == addPatient(heap, clinics[c], e)
       IN  /\ clinics' = Store(clinics, c, r.obj)
           /\ heap' = r.heap
    /\ last' = Call("addElder", c, "none")
    /\ UNCHANGED files

\* c.removeLastPatient();
RemoveLastPatient(c) ==
    /\ Running
    /\ c \in Live
    /\ LET r == removeLastPatient(heap, clinics[c])
       IN  /\ clinics' = Store(clinics, c, r.obj)
           /\ heap' = r.heap
           /\ last' = Call("removeLastPatient", c, r.thrown)
    /\ UNCHANGED files

\* c.removePatientByIndex(index);  (RoleAdmin::removeAt forwards to it)
RemovePatientByIndex(c, index) ==
    /\ Running
    /\ c \in Live
    /\ LET r == removePatientByIndex(heap, clinics[c], index)
       IN  /\ clinics' = Store(clinics, c, r.obj)
           /\ heap' = r.heap
           /\ last' = Call("removePatientByIndex", c, r.thrown)
    /\ UNCHANGED files

\* ++c;
PreIncrement(c) ==
    /\ Running
    /\ c \in Live
    /\ LET r == PreInc(heap, clinics[c])
       IN  /\ clinics' = Store(clinics, c, r.obj)
           /\ heap' = r.heap
    /\ last' = Call("operator++", c, "none")
    /\ UNCHANGED files

\* Polyclinic dest = c++;   or   c++;
PostIncrement(c, dest) ==
    /\ Running
    /\ c \in Live
    /\ dest \notin Live
    /\ LET r   == PostInc(heap, clinics[c])
           ret == ReturnInto(Store(clinics, c, r.obj), r.heap, dest, r.ret)
       IN  /\ clinics' = ret.clinics
           /\ heap' = ret.heap
    /\ last' = Call("operator++(int)", c, "none")
    /\ UNCHANGED files

\* --c;
PreDecrement(c) ==
    /\ Running
    /\ c \in Live
    /\ LET r == removeLastPatient(heap, clinics[c])
       IN  /\ clinics' = Store(clinics, c, r.obj)
           /\ heap' = r.heap
           /\ last' = Call("operator--", c, r.thrown)
    /\ UNCHANGED files

\* Polyclinic dest = c--;   or   c--;
\* { Polyclinic t(*this); --(*this); return t; }
\* when --(*this) throws, t is destroyed by the unwinding and dest never exists
PostDecrement(c, dest) ==
    /\ Running
    /\ c \in Live
    /\ dest \notin Live
    /\ LET t   == CopyCtor(heap, clinics[c])
           dec == removeLastPatient(t.heap, clinics[c])
           ret == IF dec.thrown = "none"
                  THEN ReturnInto(Store(clinics, c, dec.obj), dec.heap, dest, t.obj)
                  ELSE [clinics |-> Store(clinics, c, dec.obj),
                        heap    |-> Delete(dec.heap, t.obj.patients)]
       IN  /\ clinics' = ret.clinics
           /\ heap' = ret.heap
           /\ last' = Call("operator--(int)", c, dec.thrown)
    /\ UNCHANGED files

\* int + int. A result that is not representable is undefined behaviour:
\* the build either wraps (plain add instruction) or traps (-ftrapv, UBSan).
IntAdd(x, y) ==
    IF Representable(x + y)
    THEN {[trap |-> FALSE, value |-> x + y]}
    ELSE {[trap |-> FALSE, value |-> Wrap(x + y)], [trap |-> TRUE, value |-> 0]}

\* Polyclinic dest = a + b;   or   a + b;
OperatorPlus(a, b, dest) ==
    /\ Running
    /\ a \in Live /\ b \in Live
    /\ dest \notin Live
    /\ LET this   == clinics[a]
           other  == clinics[b]
           copied == CopyCtor(heap, this)                  \* merged(*this)
           named  == [copied.obj EXCEPT
                        !.name = this.name \o " + " \o other.name]
       IN  \E sum \in IntAdd(this.doctorsCount, other.doctorsCount) :
             IF sum.trap
             THEN /\ clinics' = clinics
                  /\ heap' = copied.heap
                  /\ last' = Call("operator+", a, "abort")
             ELSE LET summed == [named EXCEPT !.doctorsCount = sum.value]
                      pushed == PushBackClones(copied.heap, summed.patients,
                                               other.patients)
                      merged == [summed EXCEPT !.patients = pushed.patients]
                      ret    == ReturnInto(clinics, pushed.heap, dest, merged)
                  IN  /\ clinics' = ret.clinics
                      /\ heap' = ret.heap
                      /\ last' = Call("operator+", a, "none")
    /\ UNCHANGED files

\* a += b;   other is a reference: with a += a it names *this itself.
\* In a += a with patients the loop pushes into the vector it iterates over.
\* reserve() has ruled out reallocation, but push_back still invalidates the
\* end iterator the range-for holds (undefined behaviour): unchecked
\* iterators walk the original elements, checked iterators
\* (_ITERATOR_DEBUG_LEVEL) abort at the first comparison after a push_back.
OperatorPlusAssign(a, b) ==
    /\ Running
    /\ a \in Live /\ b \in Live
    /\ LET this   == clinics[a]
           named  == [this EXCEPT !.name = this.name \o " + " \o clinics[b].name]
           other1 == IF a = b THEN named ELSE clinics[b]
       IN  \E sum \in IntAdd(named.doctorsCount, other1.doctorsCount) :
             IF sum.trap
             THEN /\ clinics' = Store(clinics, a, named)
                  /\ heap' = heap
                  /\ last' = Call("operator+=", a, "abort")
             ELSE LET summed == [named EXCEPT !.doctorsCount = sum.value]
                      src    == IF a = b THEN summed.patients
                                         ELSE clinics[b].patients
                  IN  \E checked \in IF a = b /\ src # <<>>
                                     THEN BOOLEAN ELSE {FALSE} :
                        LET pushed == PushBackClones(
                                         heap, summed.patients,
                                         IF checked THEN <<Head(src)>> ELSE src)
                        IN  /\ clinics' = Store(clinics, a,
                                  [summed EXCEPT !.patients = pushed.patients])
                            /\ heap' = pushed.heap
                            /\ last' = Call("operator+=", a, IF checked THEN "abort" ELSE "none")
    /\ UNCHANGED files

\* an ofstream opened in append mode keeps what the file held
OpenAppend(fs, path) ==
    [x \in DOMAIN fs \cup {path} |-> IF x \in DOMAIN fs THEN fs[x] ELSE <<>>]

\* std::ofstream ofs(filepath): creates the file or truncates it
OpenTruncate(fs, path) ==
    [x \in DOMAIN fs \cup {path} |-> IF x = path THEN <<>> ELSE fs[x]]

\* for (const auto& p : patients) ofs << p->toLine() << '\n';
RECURSIVE WriteLines(_, _, _, _)
WriteLines(fs, path, h, ptrs) ==
    IF ptrs = <<>>
    THEN fs
    ELSE WriteLines([fs EXCEPT ![path] = Append(@, toLine(h[Head(ptrs)]) \o "\n")],
                    path, h, Tail(ptrs))

\* a saveToFile() without the check of the stream: writing to a stream that
\* failed to open is a silent no-op
saveToFileUnchecked(fs, h, this, path) ==
    IF ~CanOpen(path)
    THEN [files |-> fs, thrown |-> "none"]
    ELSE [files |-> WriteLines(OpenTruncate(fs, path), path, h, this.patients),
          thrown |-> "none"]

\* void saveToFile(const std::string& filepath) const
saveToFile(fs, h, this, path) ==
    IF ~CanOpen(path)
    THEN [files |-> fs, thrown |-> "FileSaveError"]
    ELSE [files |-> WriteLines(OpenTruncate(fs, path), path, h, this.patients),
          thrown |-> "none"]

\* c.saveToFile(path);
SaveToFile(c, path) ==
    /\ Running
    /\ c \in Live
    /\ LET r == saveToFile(files, heap, clinics[c], path)
       IN  /\ files' = r.files
           /\ last' = Call("saveToFile", c, r.thrown)
    /\ UNCHANGED <<clinics, heap>>

-----------------------------------------------------------------------------
(* Inputs of the callers (main and the roles) *)

Addresses == {"vul. Holovna, 10"}
ChildArgs == {<<"Marta", 7, "Zastuda", "Mama: +380501112233">>}
ElderArgs == {<<"Petro", 72, "Sertse", "Penitsylin", "Navantazhennia">>}
Paths == {[dir |-> ".", base |-> "patients.txt"],
          [dir |-> "nonexistent_dir", base |-> "patients.txt"]}

\* the free store has room for k more objects
Room(k) == Cardinality(DOMAIN heap) + k <= MaxObjects

\* number of patients of the Polyclinic variable c, 0 when c is not in scope
Size(c) == IF c \in Live THEN Len(clinics[c].patients) ELSE 0

\* the name of a merge of a and b stays within MaxNameLen
NameRoom(a, b) ==
    /\ a \in Live /\ b \in Live
    /\ Len(clinics[a].name) + 3 + Len(clinics[b].name) <= MaxNameLen

\* the Patient objects the Polyclinic variable c owns, in order
Records(c) == [i \in 1 .. Len(clinics[c].patients) |-> heap[clinics[c].patients[i]]]

\* everything a caller can observe of the Polyclinic variable c
View(c) ==
    [name |-> clinics[c].name, address |-> clinics[c].address,
     doctorsCount |-> clinics[c].doctorsCount, records |-> Records(c)]

\* every pointer held by a Polyclinic points to a live object, and no object
\* is pointed to twice (neither by two Polyclinics nor twice by one)
NoSharedRecord ==
    /\ \A c \in Live : \A i \in 1 .. Len(clinics[c].patients) :
          clinics[c].patients[i] \in DOMAIN heap
    /\ \A c \in Live, d \in Live :
          \A i \in 1 .. Len(clinics[c].patients), j \in 1 .. Len(clinics[d].patients) :
             (clinics[c].patients[i] = clinics[d].patients[j]) => (c = d /\ i = j)

-----------------------------------------------------------------------------
(* Scenario: copies. c1 is constructed; c2 only ever comes to exist as a   *)
(* copy of c1 (copy constructor, postfix operators); both are mutated.     *)

CopySlots == {"c1", "c2"}

NextCopy ==
    \/ \E ad \in Addresses : Construct("c1", "A", ad, 1)
    \/ \E c \in CopySlots, src \in CopySlots :
          Room(Size(src)) /\ CopyConstruct(c, src)
    \/ \E c \in CopySlots : Destroy(c)
    \/ \E c \in CopySlots : Room(1) /\ AddPatient(c, DefaultPatient)
    \/ \E c \in CopySlots, x \in ChildArgs :
          Room(1) /\ AddChild(c, x[1], x[2], x[3], x[4])
    \/ \E c \in CopySlots : RemoveLastPatient(c)
    \/ \E c \in CopySlots : \E i \in 0 .. Size(c) : RemovePatientByIndex(c, i)
    \/ \E c \in CopySlots : Room(1) /\ PreIncrement(c)
    \/ \E c \in CopySlots, dest \in CopySlots \cup {Temporary} :
          Room(Size(c) + 1) /\ PostIncrement(c, dest)
    \/ \E c \in CopySlots : PreDecrement(c)
    \/ \E c \in CopySlots, dest \in CopySlots \cup {Temporary} :
          Room(Size(c)) /\ PostDecrement(c, dest)
    \/ \E a \in CopySlots, b \in CopySlots :
          a # b /\ Room(Size(b)) /\ NameRoom(a, b) /\ OperatorPlusAssign(a, b)

SpecCopy == Init /\ [][NextCopy]_vars

\* the member functions that change the Polyclinic they are called on
Mutators ==
    {"addPatient", "addChild", "addElder", "removeLastPatient",
     "removePatientByIndex", "operator++", "operator++(int)", "operator--",
     "operator--(int)", "operator+="}

\* C1: deep-copy independence. After every step no Patient object is shared
\* between two Polyclinics (nor dangling), and a call on one Polyclinic
\* leaves the name, address, doctorsCount, pointers and Patient objects of
\* every other Polyclinic (its copies and its original among them) unchanged.
C1_DeepCopyIndependence ==
    [][/\ NoSharedRecord'
       /\ \A r \in Live \cap Live' :
             (last'.op \in Mutators /\ r # last'.self) =>
                /\ clinics'[r].patients = clinics[r].patients
                /\ View(r)' = View(r)]_vars

\* C1 witness: c2, a copy of a c1 that owns patients, has just been mutated:
\* the two start with equal records at different addresses and now differ
C1_Witness ==
    /\ {"c1", "c2"} \subseteq Live
    /\ last.op \in Mutators /\ last.self = "c2" /\ last.outcome = "none"
    /\ Len(clinics["c1"].patients) > 0 /\ Len(clinics["c2"].patients) > 0
    /\ Records("c1")[1] = Records("c2")[1]
    /\ clinics["c1"].patients[1] # clinics["c2"].patients[1]
    /\ Len(clinics["c1"].patients) # Len(clinics["c2"].patients)

-----------------------------------------------------------------------------
(* Scenario: clones. Polyclinics holding all three kinds of Patient are    *)
(* copied (copy constructor) and incremented (prefix and postfix ++).      *)

CloneSlots == {"c1", "c2"}
CloneArgs == {<<"A", -1>>, <<"B", 2>>}

NextClone ==
    \/ \E c \in CloneSlots, x \in CloneArgs, ad \in Addresses :
          Construct(c, x[1], ad, x[2])
    \/ \E c \in CloneSlots, src \in CloneSlots :
          Room(Size(src)) /\ CopyConstruct(c, src)
    \/ \E c \in CloneSlots : Destroy(c)
    \/ \E c \in CloneSlots, x \in ChildArgs :
          Room(1) /\ AddChild(c, x[1], x[2], x[3], x[4])
    \/ \E c \in CloneSlots, x \in ElderArgs :
          Room(1) /\ AddElder(c, x[1], x[2], x[3], x[4], x[5])
    \/ \E c \in CloneSlots : Room(1) /\ PreIncrement(c)
    \/ \E c \in CloneSlots, dest \in CloneSlots \cup {Temporary} :
          Room(Size(c) + 1) /\ PostIncrement(c, dest)

SpecClone == Init /\ [][NextClone]_vars

\* C2: the copy constructor yields a Polyclinic with the name, address and
\* doctorsCount of its source and, position by position, a Patient of the
\* same dynamic type with equal fields, hence equal printInfo() and toLine()
\* output; a ChildPatient or ElderPatient is never copied as a plain Patient.
\* The source itself is left as it was.
C2_CopyPreservesVariants ==
    [][\A c \in CloneSlots, src \in CloneSlots :
          CopyConstruct(c, src) =>
             /\ clinics'[c].name = clinics[src].name
             /\ clinics'[c].address = clinics[src].address
             /\ clinics'[c].doctorsCount = clinics[src].doctorsCount
             /\ getPatientsCount(clinics'[c]) = getPatientsCount(clinics[src])
             /\ View(src)' = View(src)
             /\ \A i \in 1 .. Len(clinics[src].patients) :
                   LET p == heap[clinics[src].patients[i]]
                       q == heap'[clinics'[c].patients[i]]
                   IN  /\ q.type = p.type
                       /\ (p.type # "Patient" => q.type # "Patient")
                       /\ q = p
                       /\ printInfo(q) = printInfo(p)
                       /\ toLine(q) = toLine(p)]_vars

\* C2 witness: a Polyclinic that owns a ChildPatient or an ElderPatient has
\* just been copy-constructed into last.self
C2_Witness ==
    /\ last.op = "Polyclinic(const Polyclinic&)"
    /\ last.self \in Live
    /\ \E i \in 1 .. Len(clinics[last.self].patients) :
          Records(last.self)[i].type \in {"ChildPatient", "ElderPatient"}

\* what one increment does to the Polyclinic variable c: one more patient,
\* the earlier ones untouched, the new last one a default-constructed Patient
Incremented(c) ==
    LET n == Len(clinics[c].patients)
    IN  /\ clinics'[c].name = clinics[c].name
        /\ clinics'[c].address = clinics[c].address
        /\ clinics'[c].doctorsCount = clinics[c].doctorsCount
        /\ getPatientsCount(clinics'[c]) = n + 1
        /\ SubSeq(clinics'[c].patients, 1, n) = clinics[c].patients
        /\ \A i \in 1 .. n : heap'[clinics'[c].patients[i]] = heap[clinics[c].patients[i]]
        /\ heap'[clinics'[c].patients[n + 1]] =
              [type |-> "Patient", name |-> "Nevidomo", age |-> 0, disease |-> "Nemaie"]

\* C7: postfix ++ returns an independent Polyclinic equal in content to the
\* receiver before the call, and increments the receiver by one default
\* Patient; prefix ++ changes the receiver in the same way.
C7_PostfixIncrement ==
    [][/\ \A c \in CloneSlots, dest \in CloneSlots \cup {Temporary} :
             PostIncrement(c, dest) =>
                /\ Incremented(c)
                /\ NoSharedRecord'
                /\ dest # Temporary =>
                      /\ dest \in Live'
                      /\ View(dest)' = View(c)
       /\ \A c \in CloneSlots : PreIncrement(c) => Incremented(c)]_vars

\* C7 witness: c1++ on a c1 that owned a patient has just initialised c2,
\* which is one patient shorter than c1 is now
C7_Witness ==
    /\ last.op = "operator++(int)" /\ last.self = "c1"
    /\ {"c1", "c2"} \subseteq Live
    /\ Len(clinics["c2"].patients) >= 1
    /\ Len(clinics["c1"].patients) = Len(clinics["c2"].patients) + 1

-----------------------------------------------------------------------------
(* Scenario: removals. c1 is filled and emptied again by every removing    *)
(* member function; c2 only ever receives the result of a postfix --.      *)

RemoveSlots == {"c1", "c2"}
\* size_t index arguments, admin.removeAt(c1, 999) of main among them
RemoveIndexes == (0 .. (MaxObjects + 1)) \cup {999}

NextRemove ==
    \/ \E ad \in Addresses : Construct("c1", "A", ad, 2)
    \/ \E c \in RemoveSlots : Destroy(c)
    \/ \E x \in ChildArgs : Room(1) /\ AddChild("c1", x[1], x[2], x[3], x[4])
    \/ \E x \in ElderArgs : Room(1) /\ AddElder("c1", x[1], x[2], x[3], x[4], x[5])
    \/ Room(1) /\ PreIncrement("c1")
    \/ \E c \in RemoveSlots : RemoveLastPatient(c)
    \/ \E c \in RemoveSlots, i \in RemoveIndexes : RemovePatientByIndex(c, i)
    \/ \E c \in RemoveSlots : PreDecrement(c)
    \/ \E c \in RemoveSlots, dest \in RemoveSlots \cup {Temporary} :
          Room(Size(c)) /\ PostDecrement(c, dest)

SpecRemove == Init /\ [][NextRemove]_vars

\* the member functions that remove the last patient
TailRemovals == {"removeLastPatient", "operator--", "operator--(int)"}

\* C3: removeLastPatient(), --c and c-- on a Polyclinic without patients
\* throw EmptyClinicError and leave it as it was (still without patients,
\* name, address and doctorsCount unchanged); on a Polyclinic with patients
\* none of them throws.
C3_TailRemovalOnEmpty ==
    [][last'.op \in TailRemovals =>
          LET c == last'.self
          IN  IF getPatientsCount(clinics[c]) = 0
              THEN /\ last'.outcome = "EmptyClinicError"
                   /\ c \in Live'
                   /\ getPatientsCount(clinics'[c]) = 0
                   /\ clinics'[c].name = clinics[c].name
                   /\ clinics'[c].address = clinics[c].address
                   /\ clinics'[c].doctorsCount = clinics[c].doctorsCount
              ELSE last'.outcome = "none"]_vars

\* C3 witness: c1-- has just thrown EmptyClinicError on an empty c1
C3_Witness ==
    /\ last.op = "operator--(int)" /\ last.self = "c1"
    /\ last.outcome = "EmptyClinicError"
    /\ "c1" \in Live /\ getPatientsCount(clinics["c1"]) = 0

\* C4: removePatientByIndex(index) on patients r[0..n-1] throws
\* PatientIndexError and leaves the sequence as it was when index >= n;
\* when index < n it does not throw and leaves r[0..index-1] followed by
\* r[index+1..n-1] (same objects, same order, one patient fewer).
C4_RemoveAt ==
    [][\A c \in RemoveSlots, index \in RemoveIndexes :
          RemovePatientByIndex(c, index) =>
             LET n == Len(clinics[c].patients)
             IN  IF index >= n
                 THEN /\ last'.outcome = "PatientIndexError"
                      /\ clinics'[c].patients = clinics[c].patients
                      /\ Records(c)' = Records(c)
                 ELSE /\ last'.outcome = "none"
                      /\ Len(clinics'[c].patients) = n - 1
                      /\ clinics'[c].patients =
                            [i \in 1 .. (n - 1) |->
                               IF i <= index THEN clinics[c].patients[i]
                                             ELSE clinics[c].patients[i + 1]]
                      /\ Records(c)' =
                            [i \in 1 .. (n - 1) |->
                               IF i <= index THEN Records(c)[i]
                                             ELSE Records(c)[i + 1]]]_vars

\* C4 witness: the middle one of three patients has just been removed
C4_Witness ==
    /\ last.op = "removePatientByIndex" /\ last.self = "c1"
    /\ last.outcome = "none"
    /\ "c1" \in Live /\ clinics["c1"].patients = <<1, 3>>

\* C4 witness of the failing case: an index beyond the end has been refused
\* on a Polyclinic that owns patients
C4_WitnessThrown ==
    /\ last.op = "removePatientByIndex" /\ last.self = "c1"
    /\ last.outcome = "PatientIndexError"
    /\ "c1" \in Live /\ Len(clinics["c1"].patients) > 0

-----------------------------------------------------------------------------
(* Scenario: saving. c1 is filled, saved to a path that opens and to one   *)
(* that does not, changed and saved again.                                 *)

SavePatientArgs == {NewPatient("Oleksii", -40, "Hryp")}

NextSave ==
    \/ \E ad \in Addresses : Construct("c1", "A", ad, 2)
    \/ Destroy("c1")
    \/ \E p \in SavePatientArgs : Room(1) /\ AddPatient("c1", p)
    \/ \E x \in ChildArgs : Room(1) /\ AddChild("c1", x[1], x[2], x[3], x[4])
    \/ \E x \in ElderArgs : Room(1) /\ AddElder("c1", x[1], x[2], x[3], x[4], x[5])
    \/ RemoveLastPatient("c1")
    \/ \E path \in Paths : SaveToFile("c1", path)

SpecSave == Init /\ [][NextSave]_vars

\* the decimal text of the ages that occur in the scenarios
AgeText(age) ==
    CASE age = 0 -> "0" [] age = 7 -> "7" [] age = 18 -> "18"
      [] age = 72 -> "72" [] age = -40 -> "-40"

\* the line format of the file, by kind of record
SerializeLine(p) ==
    LET common == p.name \o "|" \o AgeText(p.age) \o "|" \o p.disease
    IN  IF p.type = "ChildPatient"
        THEN "Child|" \o common \o "|" \o p.parentContact
        ELSE IF p.type = "ElderPatient"
        THEN "Elder|" \o common \o "|" \o p.allergies \o "|" \o p.contraindications
        ELSE "Patient|" \o common

\* C8: a saveToFile(path) that can open path leaves in the file exactly one
\* line per patient, in order, in the format of the patient's kind, whatever
\* the file held before; no other call changes any file.
C8_ExportWritesSnapshot ==
    [][/\ \A path \in Paths :
             (SaveToFile("c1", path) /\ CanOpen(path)) =>
                /\ path \in DOMAIN files'
                /\ files'[path] =
                      [i \in 1 .. getPatientsCount(clinics["c1"]) |->
                         SerializeLine(Records("c1")[i]) \o "\n"]
       /\ last'.op # "saveToFile" => files' = files]_vars

\* C8 witness: a file of two or more lines was written and c1 has been
\* changed since, so the file no longer matches c1
C8_Witness ==
    /\ last.op \in Mutators /\ last.self = "c1" /\ "c1" \in Live
    /\ \E path \in DOMAIN files :
          /\ Len(files[path]) >= 2
          /\ Len(files[path]) # getPatientsCount(clinics["c1"])

\* C9: saveToFile(path) throws FileSaveError whenever path cannot be
\* opened, and whether it throws or not the Polyclinic and its patients are
\* afterwards what they were before.
C9_ExportFailure ==
    [][\A path \in Paths :
          SaveToFile("c1", path) =>
             /\ ~CanOpen(path) => last'.outcome = "FileSaveError"
             /\ "c1" \in Live' /\ clinics'["c1"] = clinics["c1"]
             /\ View("c1")' = View("c1")]_vars

\* C9 witness: saving a c1 that owns patients has just thrown FileSaveError
C9_Witness ==
    /\ last.op = "saveToFile" /\ last.outcome = "FileSaveError"
    /\ "c1" \in Live /\ getPatientsCount(clinics["c1"]) > 0

-----------------------------------------------------------------------------
(* Scenario: merges. c1 and c2 are constructed with doctor counts up to    *)
(* INT_MAX, filled, and merged by + (into c3 or a temporary) and by +=     *)
(* (into themselves and into each other).                                  *)

MergeSlots == {"c1", "c2", "c3"}
MergeOperands == {"c1", "c2"}
\* c1 is "A" with -1 or INT_MAX doctors and receives children,
\* c2 is "B" with 1 doctor and receives elders
MergeDoctors == {-1, IntMax}

MergeRoom(k) == Cardinality(DOMAIN heap) + k <= MaxMergeObjects

NextMerge ==
    \/ \E d \in MergeDoctors, ad \in Addresses : Construct("c1", "A", ad, d)
    \/ \E ad \in Addresses : Construct("c2", "B", ad, 1)
    \/ \E c \in MergeSlots : Destroy(c)
    \/ \E x \in ChildArgs :
          MergeRoom(1) /\ AddChild("c1", x[1], x[2], x[3], x[4])
    \/ \E x \in ElderArgs :
          MergeRoom(1) /\ AddElder("c2", x[1], x[2], x[3], x[4], x[5])
    \/ \E a \in MergeOperands, b \in MergeOperands, dest \in {"c3", Temporary} :
          /\ MergeRoom(Size(a) + Size(b)) /\ NameRoom(a, b)
          /\ OperatorPlus(a, b, dest)
    \/ \E a \in MergeOperands, b \in MergeOperands :
          MergeRoom(Size(b)) /\ NameRoom(a, b) /\ OperatorPlusAssign(a, b)

SpecMerge == Init /\ [][NextMerge]_vars

\* C5 as claimed: a + b returns a new Polyclinic named "a + b" whose
\* doctorsCount is the sum of the two and whose patients are clones of a's
\* followed by clones of b's; a and b are left as they were and no Patient
\* object is shared.
C5_Merge ==
    [][\A a \in MergeOperands, b \in MergeOperands :
          OperatorPlus(a, b, "c3") =>
             /\ "c3" \in Live'
             /\ clinics'["c3"].name = clinics[a].name \o " + " \o clinics[b].name
             /\ clinics'["c3"].doctorsCount =
                   clinics[a].doctorsCount + clinics[b].doctorsCount
             /\ Records("c3")' = Records(a) \o Records(b)
             /\ getPatientsCount(clinics'["c3"]) =
                   getPatientsCount(clinics[a]) + getPatientsCount(clinics[b])
             /\ a \in Live' /\ clinics'[a] = clinics[a] /\ View(a)' = View(a)
             /\ b \in Live' /\ clinics'[b] = clinics[b] /\ View(b)' = View(b)
             /\ NoSharedRecord']_vars

\* C5 without its sentence on doctorsCount, for the calls that return
C5_MergeRecords ==
    [][\A a \in MergeOperands, b \in MergeOperands :
          (OperatorPlus(a, b, "c3") /\ last'.outcome = "none") =>
             /\ "c3" \in Live'
             /\ clinics'["c3"].name = clinics[a].name \o " + " \o clinics[b].name
             /\ Representable(clinics[a].doctorsCount + clinics[b].doctorsCount) =>
                   clinics'["c3"].doctorsCount =
                      clinics[a].doctorsCount + clinics[b].doctorsCount
             /\ Records("c3")' = Records(a) \o Records(b)
             /\ a \in Live' /\ clinics'[a] = clinics[a] /\ View(a)' = View(a)
             /\ b \in Live' /\ clinics'[b] = clinics[b] /\ View(b)' = View(b)
             /\ NoSharedRecord']_vars

C6_MergeInPlaceRecords ==
    [][\A a \in MergeOperands, b \in MergeOperands :
          (a # b /\ OperatorPlusAssign(a, b) /\ last'.outcome = "none") =>
             /\ a \in Live'
             /\ clinics'[a].name = clinics[a].name \o " + " \o clinics[b].name
             /\ Representable(clinics[a].doctorsCount + clinics[b].doctorsCount) =>
                   clinics'[a].doctorsCount =
                      clinics[a].doctorsCount + clinics[b].doctorsCount
             /\ SubSeq(clinics'[a].patients, 1, Len(clinics[a].patients)) =
                   clinics[a].patients
             /\ Records(a)' = Records(a) \o Records(b)
             /\ b \in Live' /\ clinics'[b] = clinics[b] /\ View(b)' = View(b)
             /\ NoSharedRecord']_vars

\* C10 as claimed: the doctorsCount of every Polyclinic is never negative
C10_DoctorCountNonNegative ==
    \A c \in Live : clinics[c].doctorsCount >= 0

====
